---- MODULE Spec2Model ----
(***************************************************************************)
(* Model of aries_cloudagent/vc/ld_proofs/document_loader.py:              *)
(* DocumentLoader, a JSON-LD document loader that resolves did: and        *)
(* http(s): references behind a cache, and runs the asynchronous pipeline  *)
(* on a single-worker ThreadPoolExecutor on behalf of synchronous callers. *)
(*                                                                         *)
(* Python strings are TLA+ strings; None and exceptions are records.       *)
(***************************************************************************)
EXTENDS Integers, Sequences, FiniteSets, TLC

(* ---------------------------------------------------------------------- *)
(* Bounds                                                                  *)
(* ---------------------------------------------------------------------- *)

\* Number of load_document calls made on the one DocumentLoader instance.
NCalls == 2

\* Number of those calls made when every reference of Refs is tried.
NRefCalls == 1

Calls == 1..NCalls

RefCalls == 1..NRefCalls

(* ---------------------------------------------------------------------- *)
(* Values                                                                  *)
(* ---------------------------------------------------------------------- *)

\* Python None where a dict is expected (a document, a cache value).
None == [py |-> "None"]

\* Python None where a str is expected (contextUrl).
NoneStr == "None"

\* References handed to load_document.
Refs ==
    { "did:a:1", "did:a:1/p", "did:a:1?q", "did:a:1#f", "did:", "did:/p",
      "http://h", "https://h", "ftp://x", "did" }

\* Options mappings handed to load_document.
OptionsPool == { [headers |-> "none"], [headers |-> "accept"] }

\* The load_document(url, options) calls made under concurrency.
CoreRequests ==
    { [url |-> "did:a:1/p", options |-> [headers |-> "none"]],
      [url |-> "http://h", options |-> [headers |-> "none"]],
      [url |-> "http://h", options |-> [headers |-> "accept"]],
      [url |-> "ftp://x", options |-> [headers |-> "none"]] }

\* The load_document(url, options) calls made to try every reference.
AllRequests == [url : Refs, options : OptionsPool]

\* TTLs a DocumentLoader may be constructed with; 300 is the default.
default_cache_ttl == 300

CacheTtls == { default_cache_ttl, 60 }

\* DID documents the DIDResolver may return.
DidDocuments == { [id |-> "doc1"], [id |-> "doc2"] }

\* Remote documents the pyld requests loader may return for url.
RemoteDocuments(url) ==
    { [contentType |-> "application/json", contextUrl |-> NoneStr,
       documentUrl |-> url, document |-> [id |-> "body1"]],
      [contentType |-> "application/ld+json", contextUrl |-> "http://ctx",
       documentUrl |-> url, document |-> [id |-> "body2"]] }

\* Exceptions, by category.
Exception(category, message) == [category |-> category, message |-> message]

ResolverError == Exception("ResolverError", "did resolution failed")

JsonLdError == Exception("JsonLdError", "loading document failed")

CacheError == Exception("CacheError", "cache unavailable")

(* ---------------------------------------------------------------------- *)
(* Strings                                                                 *)
(* ---------------------------------------------------------------------- *)

\* str.startswith
StartsWith(s, prefix) ==
    /\ Len(s) >= Len(prefix)
    /\ SubSeq(s, 1, Len(prefix)) = prefix

\* s[i] as a one-character string, "" past the end.
CharAt(s, i) == IF i >= 1 /\ i <= Len(s) THEN SubSeq(s, i, i) ELSE ""

Letters ==
    { "a", "b", "c", "d", "e", "f", "g", "h", "i", "j", "k", "l", "m",
      "n", "o", "p", "q", "r", "s", "t", "u", "v", "w", "x", "y", "z" }

Digits == { "0", "1", "2", "3", "4", "5", "6", "7", "8", "9" }

\* Characters of a DID method name.
MethodChars == Letters \cup Digits

\* Characters of a DID method-specific id (besides the colon).
IdChars == Letters \cup Digits \cup { ".", "_", "%", "-" }

\* Index of the last character of the longest run of characters of chars
\* that starts at s[i]; i - 1 when s[i] is not in chars.
RECURSIVE RunEnd(_, _, _)
RunEnd(s, i, chars) ==
    IF CharAt(s, i) \in chars THEN RunEnd(s, i + 1, chars) ELSE i - 1

\* Largest index j <= e, j >= lo - 1, with s[j] not a colon.
RECURSIVE TrimColons(_, _, _)
TrimColons(s, lo, e) ==
    IF e >= lo /\ CharAt(s, e) = ":" THEN TrimColons(s, lo, e - 1) ELSE e

\* The DID at the head of a DID URL: did:<method>:<method-specific-id>,
\* "" when url does not begin with a well-formed DID.
DidPart(url) ==
    IF ~StartsWith(url, "did:") THEN ""
    ELSE LET m == RunEnd(url, 5, MethodChars) IN
         IF m < 5 \/ CharAt(url, m + 1) # ":" THEN ""
         ELSE LET e == RunEnd(url, m + 2, IdChars \cup {":"})
                  t == TrimColons(url, m + 2, e)
              IN  IF t < m + 2 THEN "" ELSE SubSeq(url, 1, t)

\* DIDUrl.is_valid: a DID followed by a path, query or fragment; a plain DID
\* is not a valid DID URL.
DIDUrl_is_valid(url) == DidPart(url) # "" /\ Len(url) > Len(DidPart(url))

\* DIDUrl.parse(url).did
DIDUrl_parse_did(url) == DidPart(url)

\* A reference without normalisation, as a faulty loader would pass it on.
PlainDidUnstripped(did) == did

\* did = DIDUrl.parse(did).did if DIDUrl.is_valid(did) else did
PlainDid(did) == IF DIDUrl_is_valid(did) THEN DIDUrl_parse_did(did) ELSE did

\* A cache key that forgets the reference.
cache_key_constant(url) == "json_ld_document_resolver::"

\* cache_key = f"json_ld_document_resolver::{url}"
cache_key(url) == "json_ld_document_resolver::" \o url

\* A key that tells the options of a request apart.
RequestKeyWithOptions(r) == cache_key(r.url) \o "::" \o r.options.headers

\* A key built from the identifier given to the resolver.
RequestKeyNormalized(r) == cache_key(PlainDid(r.url))

\* The cache key _load_async(url, options) computes for request r: the
\* options take no part in it.
RequestKey(r) == cache_key(r.url)

CacheKeys == { RequestKey(r) : r \in AllRequests }

\* A prefix test that forgets the colon.
IsDidLoose(url) == StartsWith(url, "did")

\* url.startswith("did:")
IsDid(url) == StartsWith(url, "did:")

\* url.startswith("http://") or url.startswith("https://")
IsHttp(url) == StartsWith(url, "http://") \/ StartsWith(url, "https://")

\* An error that quotes the reference.
UnrecognizedErrorQuoting(url) ==
    Exception("LinkedDataProofException",
              "Unrecognized url format. Must start with "
                  \o "'did:', 'http://' or 'https://'" \o ": " \o url)

\* The LinkedDataProofException raised for url in the else branch.
UnrecognizedError(url) ==
    Exception("LinkedDataProofException",
              "Unrecognized url format. Must start with "
                  \o "'did:', 'http://' or 'https://'")

\* A truth test that never succeeds.
TruthyNever(document) == FALSE

\* Python truthiness of a cached value: None and the empty dict are falsy.
Truthy(document) == document # None /\ document # << >>

\* A DID record that keeps the reference as given.
DidDocumentRecordOf(url, did, did_document) ==
    [contentType |-> "application/ld+json", contextUrl |-> NoneStr,
     documentUrl |-> url, document |-> did_document]

\* The record _load_did_document builds around the resolved DID document;
\* url is the reference as given, did the identifier given to the resolver.
DidDocumentRecord(url, did, did_document) ==
    [contentType |-> "application/ld+json", contextUrl |-> NoneStr,
     documentUrl |-> did, document |-> did_document]

\* A pass-through that rewrites the content type.
HttpDocumentRemapped(fetched) ==
    [fetched EXCEPT !.contentType = "application/ld+json"]

\* The document _load_http_document returns for what the loader fetched.
HttpDocument(fetched) == fetched

(* ---------------------------------------------------------------------- *)
(* State                                                                   *)
(* ---------------------------------------------------------------------- *)

VARIABLES
    cache,        \* self.cache is set (a BaseCache was injected)
    cache_ttl,    \* self.cache_ttl
    store,        \* contents of the injected cache, by key; None when absent
    queue,        \* self.executor's work queue, a sequence of calls
    num_threads,  \* worker threads the executor has started
    loops,        \* event loops created so far, the callers' loop included
    expired,      \* keys whose entry the cache has dropped at its TTL
    call          \* the load_document calls, in order of submission

vars == << cache, cache_ttl, store, queue, num_threads, loops, expired, call >>

\* The event loop running on the callers' thread (the agent's loop).
MainLoop == 1

\* asyncio.get_event_loop(): the newest loop there is, no new one.
get_event_loop(n) == n

\* asyncio.new_event_loop(), when n loops exist: one more loop.
new_event_loop(n) == n + 1

\* One worker too many.
max_workers_two == 1 + 1

\* ThreadPoolExecutor(max_workers=1)
max_workers == 1

\* A call that has not been made yet.
NewCall ==
    [pc |-> "new", url |-> "", options |-> [headers |-> "none"],
     worker |-> 0, loop |-> 0, document |-> None, log |-> << >>,
     future |-> None, delivered |-> None, after |-> FALSE]

\* Positions of a call inside _load_async, on the worker.
Running == { "cache_get", "resolve", "cache_set", "stuck" }

\* The calls whose pipeline is in flight.
InFlight == { c \in Calls : call[c].pc \in Running }

\* A worker that is lost once a work item of its has raised.
BusyAfterFailure(w) ==
    \E c \in Calls :
        /\ call[c].worker = w
        /\ \/ c \in InFlight
           \/ call[c].future # None /\ call[c].future.kind = "exception"

\* Worker w is running a work item.
Busy(w) == \E c \in InFlight : call[c].worker = w

Init ==
    /\ cache \in BOOLEAN
    /\ cache_ttl \in CacheTtls
    /\ store = [k \in CacheKeys |-> None]
    /\ queue = << >>
    /\ num_threads = 0
    /\ loops = MainLoop
    /\ expired = { }
    /\ call = [c \in Calls |-> NewCall]

\* The empty document ({} in Python).
EmptyDocument == << >>

\* Values the injected cache may already hold under the key of url when the
\* loader is constructed: the cache belongs to the profile and outlives the
\* loader.
StoredEntries(url) == RemoteDocuments(url) \cup { EmptyDocument }

\* A loader constructed on a profile whose cache already holds an entry
\* under the key of one reference.
InitShared ==
    /\ cache = TRUE
    /\ cache_ttl = default_cache_ttl
    /\ \E v \in StoredEntries("http://h") :
         store = [k \in CacheKeys |->
                    IF k = cache_key("http://h") THEN v ELSE None]
    /\ queue = << >>
    /\ num_threads = 0
    /\ loops = MainLoop
    /\ expired = { }
    /\ call = [c \in Calls |-> NewCall]

(* ---------------------------------------------------------------------- *)
(* Futures                                                                 *)
(* ---------------------------------------------------------------------- *)

\* A collaborator call that returns value.
Returns(value) == [kind |-> "return", value |-> value]

\* A collaborator call that raises exc.
Raises(exc) == [kind |-> "raise", exc |-> exc]

\* A collaborator call that never returns.
Never == [kind |-> "never"]

\* future.set_result(document): the work item returned document.
set_result(document) == [kind |-> "result", value |-> document]

\* A work item that turns a failure into a None result.
set_exception_swallowed(exc) == [kind |-> "result", value |-> None]

\* future.set_exception(exc): the work item raised exc.
set_exception(exc) == [kind |-> "exception", exc |-> exc]

\* The state of call c once its pipeline has ended with outcome: the work
\* item completes the call's future and the worker is free again.
Ended(c, log, outcome) ==
    [call[c] EXCEPT !.pc = "done", !.log = log, !.future = outcome]

\* A pipeline that catches what a step raises and goes on to cache an error
\* document in its place.
FailedCached(c, log, exc) ==
    IF cache /\ log[Len(log)].op # "cache.set"
    THEN [call[c] EXCEPT !.pc = "cache_set", !.log = log,
                         !.document = [error |-> exc.category]]
    ELSE Ended(c, log, set_exception(exc))

\* The state of call c once a step of _load_async has raised exc: nothing
\* catches it, so the pipeline ends there and the future holds exc.
Failed(c, log, exc) == Ended(c, log, set_exception(exc))

\* The state of call c whose backend call never returns: the worker stays
\* inside it.
Stuck(c, log) == [call[c] EXCEPT !.pc = "stuck", !.log = log]

(* ---------------------------------------------------------------------- *)
(* Synchronous bridge                                                      *)
(* ---------------------------------------------------------------------- *)

\* A work queue that hands out the newest item first.
QueueGetNewest(q) ==
    [item |-> q[Len(q)], rest |-> SubSeq(q, 1, Len(q) - 1)]

\* The executor's work queue is first in, first out.
QueueGet(q) == [item |-> Head(q), rest |-> Tail(q)]

\* load_document: future = self.executor.submit(self._load_sync, url,
\* options).  The work item is queued, and a worker thread is started when
\* none is idle and fewer than max_workers exist.
Submit(c, url, options) ==
    /\ call[c].pc = "new"
    /\ c > 1 => call[c - 1].pc # "new"
    /\ call' = [call EXCEPT ![c] =
                  [NewCall EXCEPT !.pc = "queued", !.url = url,
                                  !.options = options,
                                  !.after = (c > 1 /\ call[c - 1].pc = "returned")]]
    /\ queue' = Append(queue, c)
    /\ num_threads' =
          IF num_threads < max_workers
                /\ \A w \in 1..num_threads : Busy(w)
          THEN num_threads + 1
          ELSE num_threads
    /\ UNCHANGED << cache, cache_ttl, store, loops, expired >>

\* A loader that never finds its cache set.
HasCacheNever == FALSE

\* A loader that uses the cache store even when none was injected.
HasCacheAlways == TRUE

\* if self.cache: (None is falsy)
HasCache == cache

\* An idle worker takes the next work item and runs _load_sync: a new event
\* loop runs _load_async, which computes the cache key and, when a cache is
\* set, goes on to look it up.
WorkerStart(w) ==
    /\ w \in 1..num_threads
    /\ ~Busy(w)
    /\ queue # << >>
    /\ LET c == QueueGet(queue).item IN
         call' = [call EXCEPT ![c].pc = IF HasCache THEN "cache_get" ELSE "resolve",
                              ![c].worker = w,
                              ![c].loop = new_event_loop(loops)]
    /\ loops' = new_event_loop(loops)
    /\ queue' = QueueGet(queue).rest
    /\ UNCHANGED << cache, cache_ttl, store, num_threads, expired >>

\* A wait that gives up on a call whose pipeline is stuck.
DeliverableOnTimeout(c) == call[c].pc \in { "done", "stuck" }

\* future.result() takes no timeout: it returns only when the work item has
\* completed the future.
Deliverable(c) == call[c].pc = "done"

\* One result slot shared by the calls: the future completed last.
FutureOfLatest(c) ==
    LET done == { d \in Calls : call[d].pc = "done" }
    IN  call[CHOOSE d \in done : \A e \in done : e <= d].future

\* The future load_document waits on: the one its own submit returned.
FutureOf(c) == call[c].future

\* load_document: return future.result(): the caller receives the result or
\* the exception of its own future.
FutureResult(c) ==
    /\ Deliverable(c)
    /\ call' = [call EXCEPT ![c].pc = "returned", ![c].delivered = FutureOf(c)]
    /\ UNCHANGED << cache, cache_ttl, store, queue, num_threads, loops, expired >>

(* ---------------------------------------------------------------------- *)
(* Collaborators                                                           *)
(* ---------------------------------------------------------------------- *)

\* What await self.cache.get(key) may do: return the stored value (None
\* when absent) or raise.
CacheGetOutcomes(key) == { Returns(store[key]), Raises(CacheError) }

\* What await self.cache.set(key, value, ttl) may do: store or raise.
CacheSetOutcomes == { Returns(None), Raises(CacheError) }

\* What await self.resolver.resolve(profile, did) may do: the resolver
\* accepts plain DIDs only, and may fail on those too.
ResolverOutcomes(did) ==
    IF DidPart(did) = did /\ did # ""
    THEN { Returns(d) : d \in DidDocuments } \cup { Raises(ResolverError), Never }
    ELSE { Raises(ResolverError) }

\* What self.requests_loader(url, options) may do.
FetcherOutcomes(url, options) ==
    { Returns(d) : d \in RemoteDocuments(url) } \cup { Raises(JsonLdError), Never }

(* ---------------------------------------------------------------------- *)
(* Asynchronous pipeline: _load_async                                      *)
(* ---------------------------------------------------------------------- *)

\* A lookup that takes a failure of the cache for a miss.
AfterLookupFailOpen(c, log, out) ==
    IF out.kind = "return" /\ Truthy(out.value)
    THEN Ended(c, log, set_result(out.value))
    ELSE [call[c] EXCEPT !.pc = "resolve", !.log = log]

\* The state of call c after document = await self.cache.get(cache_key):
\* a failure leaves the pipeline, a truthy document is returned, anything
\* else goes on to resolution.
AfterLookup(c, log, out) ==
    IF out.kind = "raise" THEN Failed(c, log, out.exc)
    ELSE IF Truthy(out.value) THEN Ended(c, log, set_result(out.value))
    ELSE [call[c] EXCEPT !.pc = "resolve", !.log = log]

\* document = await self.cache.get(cache_key); if document: return document
CacheGet(c) ==
    /\ call[c].pc = "cache_get"
    /\ \E out \in CacheGetOutcomes(RequestKey(call[c])) :
         LET log == Append(call[c].log,
                           [op |-> "cache.get", key |-> RequestKey(call[c]),
                            ret |-> out])
         IN  call' = [call EXCEPT ![c] = AfterLookup(c, log, out)]
    /\ UNCHANGED << cache, cache_ttl, store, queue, num_threads, loops, expired >>

\* The state of call c once a document has been resolved: on to the cache
\* fill when a cache is set, otherwise return document.
Resolved(c, log, document) ==
    IF HasCache
    THEN [call[c] EXCEPT !.pc = "cache_set", !.log = log, !.document = document]
    ELSE [Ended(c, log, set_result(document)) EXCEPT !.document = document]

\* if url.startswith("did:"): document = await self._load_did_document(...)
LoadDidDocument(c) ==
    /\ call[c].pc = "resolve"
    /\ IsDid(call[c].url)
    /\ \E did \in { PlainDid(call[c].url) } : \E out \in ResolverOutcomes(did) :
         LET log == Append(call[c].log,
                           [op |-> "resolver.resolve", did |-> did, ret |-> out])
         IN  call' = [call EXCEPT ![c] =
                IF out.kind = "never" THEN Stuck(c, log)
                ELSE IF out.kind = "raise" THEN Failed(c, log, out.exc)
                ELSE Resolved(c, log,
                              DidDocumentRecord(call[c].url, did, out.value))]
    /\ UNCHANGED << cache, cache_ttl, store, queue, num_threads, loops, expired >>

\* elif url.startswith("http://") or url.startswith("https://"):
\*     document = self._load_http_document(url, options)
LoadHttpDocument(c) ==
    /\ call[c].pc = "resolve"
    /\ ~IsDid(call[c].url)
    /\ IsHttp(call[c].url)
    /\ \E out \in FetcherOutcomes(call[c].url, call[c].options) :
         LET log == Append(call[c].log,
                           [op |-> "requests_loader", url |-> call[c].url,
                            options |-> call[c].options, ret |-> out])
         IN  call' = [call EXCEPT ![c] =
                IF out.kind = "never" THEN Stuck(c, log)
                ELSE IF out.kind = "raise" THEN Failed(c, log, out.exc)
                ELSE Resolved(c, log, HttpDocument(out.value))]
    /\ UNCHANGED << cache, cache_ttl, store, queue, num_threads, loops, expired >>

\* else: raise LinkedDataProofException(...)
RaiseUnrecognized(c) ==
    /\ call[c].pc = "resolve"
    /\ ~IsDid(call[c].url)
    /\ ~IsHttp(call[c].url)
    /\ call' = [call EXCEPT ![c] =
                  Failed(c, call[c].log, UnrecognizedError(call[c].url))]
    /\ UNCHANGED << cache, cache_ttl, store, queue, num_threads, loops, expired >>

\* await self.cache.set(cache_key, document, self.cache_ttl); return document
CacheSet(c) ==
    /\ call[c].pc = "cache_set"
    /\ \E out \in CacheSetOutcomes :
         LET key == RequestKey(call[c])
             log == Append(call[c].log,
                           [op |-> "cache.set", key |-> key,
                            value |-> call[c].document, ttl |-> cache_ttl,
                            ret |-> out])
         IN  /\ call' = [call EXCEPT ![c] =
                   IF out.kind = "raise" THEN Failed(c, log, out.exc)
                   ELSE Ended(c, log, set_result(call[c].document))]
             /\ store' = IF out.kind = "raise" THEN store
                         ELSE [store EXCEPT ![key] = call[c].document]
    /\ UNCHANGED << cache, cache_ttl, queue, num_threads, loops, expired >>

\* The cache drops the entry under key k when its TTL has run out.
Expire(k) ==
    /\ store[k] # None
    /\ store' = [store EXCEPT ![k] = None]
    /\ expired' = expired \cup { k }
    /\ UNCHANGED << cache, cache_ttl, queue, num_threads, loops, call >>

\* The steps of the worker, the pipeline, the callers and the cache.
Steps ==
    \/ \E w \in 1..max_workers : WorkerStart(w)
    \/ \E c \in Calls : CacheGet(c)
    \/ \E c \in Calls : LoadDidDocument(c)
    \/ \E c \in Calls : LoadHttpDocument(c)
    \/ \E c \in Calls : RaiseUnrecognized(c)
    \/ \E c \in Calls : CacheSet(c)
    \/ \E c \in Calls : FutureResult(c)
    \/ \E k \in CacheKeys : Expire(k)

\* Up to NCalls concurrent calls with the requests of CoreRequests.
Next ==
    \/ \E c \in Calls, r \in CoreRequests : Submit(c, r.url, r.options)
    \/ Steps

Spec == Init /\ [][Next]_vars

\* Up to NRefCalls calls with every reference and every options mapping.
NextRefs ==
    \/ \E c \in RefCalls, r \in AllRequests : Submit(c, r.url, r.options)
    \/ Steps

SpecRefs == Init /\ [][NextRefs]_vars

\* The calls of Spec, on a cache that held an entry at construction.
SpecShared == InitShared /\ [][Next]_vars

\* The steps taken by the worker thread and by callers waiting in
\* future.result(): the threads are scheduled, so a step that stays possible
\* is taken.
Progress ==
    \/ \E w \in 1..max_workers : WorkerStart(w)
    \/ \E c \in Calls : CacheGet(c)
    \/ \E c \in Calls : LoadDidDocument(c)
    \/ \E c \in Calls : LoadHttpDocument(c)
    \/ \E c \in Calls : RaiseUnrecognized(c)
    \/ \E c \in Calls : CacheSet(c)
    \/ \E c \in Calls : FutureResult(c)

\* Spec with the worker thread and the waiting callers scheduled fairly.
SpecFair == Spec /\ WF_vars(Progress)

(* ---------------------------------------------------------------------- *)
(* What a call has done, read from its log                                 *)
(* ---------------------------------------------------------------------- *)

\* The pipeline of call c has ended (returned or raised).
Finished(c) == call[c].pc \in { "done", "returned" }

\* The pipeline of call c has begun.
Started(c) == call[c].pc \in Running \/ Finished(c)

\* The invocations of collaborator op made by call c.
Invocations(c, op) ==
    { i \in DOMAIN call[c].log : call[c].log[i].op = op }

\* Number of invocations of op made by call c.
Count(c, op) == Cardinality(Invocations(c, op))

\* Backend invocations (Identifier Resolver and Network Fetcher) of call c.
BackendCount(c) == Count(c, "resolver.resolve") + Count(c, "requests_loader")

\* The reference starts with neither 'did:' nor 'http://' nor 'https://'.
UnrecognizedRef(url) ==
    /\ ~StartsWith(url, "did:")
    /\ ~StartsWith(url, "http://")
    /\ ~StartsWith(url, "https://")

(* ---------------------------------------------------------------------- *)
(* Synchronous bridge: serialization                                       *)
(* ---------------------------------------------------------------------- *)

\* C1: on one DocumentLoader at most one pipeline execution (_load_async
\* run) is in flight at any moment, however many calls have been submitted.
C1_OnePipelineInFlight == Cardinality(InFlight) <= 1

\* One pipeline is running while another call is already queued behind it.
C1_Witness ==
    \E a, b \in Calls :
        /\ call[a].pc \in Running
        /\ call[b].pc = "queued"

\* C2: calls run in submission order (calls are numbered as they are
\* submitted): when a later call's pipeline has begun, the pipeline of every
\* call submitted before it has ended, so none of the earlier call's cache
\* or resolver invocations is still to come.
C2_SubmissionOrder ==
    \A a, b \in Calls :
        (a < b /\ Started(b)) => Finished(a)

\* The second call was submitted before the first had returned, and runs
\* after the first has ended.
C2_Witness ==
    \E a, b \in Calls :
        /\ a < b
        /\ ~call[b].after
        /\ call[b].pc \in Running
        /\ Finished(a)
        /\ call[a].log # << >>

(* ---------------------------------------------------------------------- *)
(* Unrecognized references                                                 *)
(* ---------------------------------------------------------------------- *)

\* Call c made no cache lookup, or its lookup returned nothing (None).
LookupMissed(c) ==
    \A i \in Invocations(c, "cache.get") :
        call[c].log[i].ret = Returns(None)

\* The exception of the else branch of _load_async, as the source writes it.
UnrecognizedUrlFormat ==
    [category |-> "LinkedDataProofException",
     message |-> "Unrecognized url format. Must start with 'did:', 'http://' or 'https://'"]

\* s occurs in text.
Contains(text, s) ==
    \E i \in 1..(Len(text) + 1) :
        /\ i + Len(s) - 1 <= Len(text)
        /\ SubSeq(text, i, i + Len(s) - 1) = s

\* C3, as claimed: for every unrecognized reference load_document fails with
\* the unrecognized-reference error in every state of the cache, and invokes
\* neither the Identifier Resolver nor the Network Fetcher.
C3_AsClaimed ==
    \A c \in Calls :
        (Finished(c) /\ UnrecognizedRef(call[c].url)) =>
            /\ call[c].future = [kind |-> "exception", exc |-> UnrecognizedUrlFormat]
            /\ BackendCount(c) = 0

\* C3, amended: for every unrecognized reference load_document invokes
\* neither the Identifier Resolver nor the Network Fetcher and never returns
\* a resolved document; the cache is looked up first when one is set, and
\* the call fails with the unrecognized-reference error whenever that lookup
\* finds nothing (or no cache is set), and with the lookup's own failure
\* when cache.get raises.
C3_UnrecognizedFails ==
    \A c \in Calls :
        (Finished(c) /\ UnrecognizedRef(call[c].url)) =>
            /\ BackendCount(c) = 0
            /\ call[c].future.kind = "exception"
            /\ LookupMissed(c) => call[c].future = [kind |-> "exception", exc |-> UnrecognizedUrlFormat]
            /\ \A i \in Invocations(c, "cache.get") :
                   call[c].log[i].ret.kind = "raise" =>
                       call[c].future =
                           [kind |-> "exception", exc |-> call[c].log[i].ret.exc]

\* An unrecognized reference has failed with the unrecognized-reference
\* error after a cache lookup that found nothing.
C3_Witness ==
    \E c \in Calls :
        /\ Finished(c)
        /\ UnrecognizedRef(call[c].url)
        /\ Count(c, "cache.get") = 1
        /\ LookupMissed(c)
        /\ call[c].future = [kind |-> "exception", exc |-> UnrecognizedUrlFormat]

\* C4, as claimed: for an unrecognized reference load_document invokes
\* neither cache.get nor cache.set, whether or not a cache is set.
C4_AsClaimed ==
    \A c \in Calls :
        (Finished(c) /\ UnrecognizedRef(call[c].url)) =>
            /\ Count(c, "cache.get") = 0
            /\ Count(c, "cache.set") = 0

\* C4, amended: for an unrecognized reference load_document never invokes
\* cache.set; it invokes cache.get exactly once, with the key of the
\* reference, when a cache is set, and not at all when none is.
C4_NoCacheFill ==
    \A c \in Calls :
        (Finished(c) /\ UnrecognizedRef(call[c].url)) =>
            /\ Count(c, "cache.set") = 0
            /\ Count(c, "cache.get") = (IF cache THEN 1 ELSE 0)
            /\ \A i \in Invocations(c, "cache.get") :
                   call[c].log[i].key = "json_ld_document_resolver::" \o call[c].url

\* An unrecognized reference has failed with a cache set: the cache was
\* looked up once and not written, and holds nothing for that reference.
C4_Witness ==
    \E c \in Calls :
        /\ cache
        /\ Finished(c)
        /\ UnrecognizedRef(call[c].url)
        /\ Count(c, "cache.get") = 1
        /\ Count(c, "cache.set") = 0
        /\ store["json_ld_document_resolver::" \o call[c].url] = None

\* C5, as claimed: the error raised for an unrecognized reference carries
\* the offending reference string.
C5_AsClaimed ==
    \A c \in Calls :
        ( /\ Finished(c)
          /\ UnrecognizedRef(call[c].url)
          /\ call[c].future.kind = "exception"
          /\ call[c].future.exc.category = "LinkedDataProofException" ) =>
            Contains(call[c].future.exc.message, call[c].url)

\* C5, amended: the error raised for an unrecognized reference is a
\* LinkedDataProofException with one fixed message that names the accepted
\* prefixes; the message is the same for every unrecognized reference and
\* does not carry the reference.
C5_FixedMessage ==
    \A c \in Calls :
        ( /\ Finished(c)
          /\ UnrecognizedRef(call[c].url)
          /\ call[c].future.kind = "exception"
          /\ call[c].future.exc.category = "LinkedDataProofException" ) =>
            /\ call[c].future.exc = UnrecognizedUrlFormat
            /\ \A d \in Calls :
                   ( /\ Finished(d)
                     /\ UnrecognizedRef(call[d].url)
                     /\ call[d].future.kind = "exception"
                     /\ call[d].future.exc.category = "LinkedDataProofException" ) =>
                       call[d].future.exc = call[c].future.exc

\* The caller of load_document("ftp://x", ...) has received the
\* unrecognized-reference error, whose message does not hold "ftp://x".
C5_Witness ==
    \E c \in Calls :
        /\ call[c].pc = "returned"
        /\ call[c].url = "ftp://x"
        /\ call[c].delivered.kind = "exception"
        /\ call[c].delivered.exc.category = "LinkedDataProofException"
        /\ ~Contains(call[c].delivered.exc.message, call[c].url)

(* ---------------------------------------------------------------------- *)
(* Resolution on a cache miss                                              *)
(* ---------------------------------------------------------------------- *)

\* Index of the first '/', '?' or '#' of url at or after i; Len(url) + 1
\* when there is none.
RECURSIVE FirstDelimiter(_, _)
FirstDelimiter(url, i) ==
    IF i > Len(url) THEN Len(url) + 1
    ELSE IF SubSeq(url, i, i) \in { "/", "?", "#" } THEN i
    ELSE FirstDelimiter(url, i + 1)

\* The reference with its path, query and fragment stripped.
BareIdentifier(url) == SubSeq(url, 1, FirstDelimiter(url, 1) - 1)

\* C6: for every DID reference resolved on a cache miss, the Identifier
\* Resolver is invoked exactly once, with the bare identifier (path, query
\* and fragment stripped; the reference itself when it has none), the
\* Network Fetcher is not invoked, and the returned record has contentType
\* 'application/ld+json', no contextUrl, documentUrl equal to the bare
\* identifier and document equal to what the resolver returned.
C6_DidResolution ==
    \A c \in Calls :
        (Finished(c) /\ StartsWith(call[c].url, "did:")) =>
            /\ Count(c, "requests_loader") = 0
            /\ Count(c, "resolver.resolve") <= 1
            /\ LookupMissed(c) => Count(c, "resolver.resolve") = 1
            /\ \A i \in Invocations(c, "resolver.resolve") :
                 LET bare == BareIdentifier(call[c].url)
                     ret == call[c].log[i].ret
                 IN  /\ DidPart(bare) = bare => call[c].log[i].did = bare
                     /\ ret.kind = "return" =>
                          /\ call[c].log[i].did = bare
                          /\ call[c].future.kind = "result" =>
                               call[c].future.value =
                                   [contentType |-> "application/ld+json",
                                    contextUrl |-> NoneStr,
                                    documentUrl |-> bare,
                                    document |-> ret.value]

\* load_document("did:a:1/p", ...) has returned, on a miss of a configured
\* cache, the record for "did:a:1" around the document the resolver gave.
C6_Witness ==
    \E c \in Calls :
        /\ call[c].pc = "returned"
        /\ call[c].url = "did:a:1/p"
        /\ Count(c, "cache.get") = 1
        /\ LookupMissed(c)
        /\ \E i \in Invocations(c, "resolver.resolve") :
             /\ call[c].log[i].did = "did:a:1"
             /\ call[c].log[i].ret.kind = "return"
             /\ call[c].delivered =
                  [kind |-> "result",
                   value |-> [contentType |-> "application/ld+json",
                              contextUrl |-> NoneStr,
                              documentUrl |-> "did:a:1",
                              document |-> call[c].log[i].ret.value]]

\* C7: for every reference starting with 'http://' or 'https://' resolved
\* on a cache miss, the Network Fetcher is invoked exactly once, with the
\* reference and the options mapping as given, the Identifier Resolver is
\* not invoked, and what load_document returns is exactly what the fetcher
\* returned.
C7_HttpPassThrough ==
    \A c \in Calls :
        ( /\ Finished(c)
          /\ \/ StartsWith(call[c].url, "http://")
             \/ StartsWith(call[c].url, "https://") ) =>
            /\ Count(c, "resolver.resolve") = 0
            /\ Count(c, "requests_loader") <= 1
            /\ LookupMissed(c) => Count(c, "requests_loader") = 1
            /\ \A i \in Invocations(c, "requests_loader") :
                 /\ call[c].log[i].url = call[c].url
                 /\ call[c].log[i].options = call[c].options
                 /\ call[c].future.kind = "result" =>
                      /\ call[c].log[i].ret.kind = "return"
                      /\ call[c].future.value = call[c].log[i].ret.value

\* load_document("https://h", {headers: accept}) has returned, on a miss of
\* a configured cache, the very record the fetcher returned, whose content
\* type is not the one of DID records.
C7_Witness ==
    \E c \in Calls :
        /\ call[c].pc = "returned"
        /\ call[c].url = "https://h"
        /\ call[c].options = [headers |-> "accept"]
        /\ Count(c, "cache.get") = 1
        /\ LookupMissed(c)
        /\ \E i \in Invocations(c, "requests_loader") :
             /\ call[c].log[i].ret.kind = "return"
             /\ call[c].log[i].ret.value.contentType = "application/json"
             /\ call[c].delivered =
                  [kind |-> "result", value |-> call[c].log[i].ret.value]

(* ---------------------------------------------------------------------- *)
(* Cache idempotence and cache bypass                                      *)
(* ---------------------------------------------------------------------- *)

\* Call b is the call after a, made with the same reference once a had
\* returned to its caller, and has itself ended.
Successive(a, b) ==
    /\ b = a + 1
    /\ call[b].after
    /\ call[b].url = call[a].url
    /\ Finished(b)

\* The cache lookup of call c returned a stored entry.
LookupFound(c) ==
    \E i \in Invocations(c, "cache.get") :
        /\ call[c].log[i].ret.kind = "return"
        /\ call[c].log[i].ret.value # None

\* C8, as claimed: with a cache configured, two successive calls with an
\* identical reference invoke the backend resolver at most once in total,
\* and the second call's outcome equals the first's.
C8_AsClaimed ==
    cache =>
        \A a, b \in Calls :
            Successive(a, b) =>
                /\ BackendCount(a) + BackendCount(b) <= 1
                /\ call[b].future = call[a].future

\* C8, amended: with a cache configured, when the first of two successive
\* calls with an identical reference returns a document and the second
\* call's cache.get returns the (non-empty) entry stored for the reference,
\* that is, cache.get does not fail and the entry has not expired, then the
\* second call invokes no backend resolver, the two calls invoke it at most
\* once in total, and the second call's result equals the first's.
C8_CacheIdempotence ==
    cache =>
        \A a, b \in Calls :
            ( /\ Successive(a, b)
              /\ call[a].future.kind = "result"
              /\ LookupFound(b) ) =>
                /\ BackendCount(b) = 0
                /\ BackendCount(a) + BackendCount(b) <= 1
                /\ call[b].future = call[a].future

\* The first call resolved the reference through the backend and filled the
\* cache; the second, made after the first returned, was served from the
\* cache with the same document.
C8_Witness ==
    \E a, b \in Calls :
        /\ cache
        /\ Successive(a, b)
        /\ call[a].future.kind = "result"
        /\ BackendCount(a) = 1
        /\ LookupFound(b)
        /\ BackendCount(b) = 0
        /\ call[b].pc = "returned"
        /\ call[b].delivered = call[a].delivered

\* The document call c got from the backend it invoked at log position i.
BackendDocument(c, i) ==
    IF call[c].log[i].op = "resolver.resolve"
    THEN [contentType |-> "application/ld+json", contextUrl |-> NoneStr,
          documentUrl |-> call[c].log[i].did,
          document |-> call[c].log[i].ret.value]
    ELSE call[c].log[i].ret.value

\* C9: with no cache configured, every call with a recognized reference
\* invokes its backend resolver exactly once (the Identifier Resolver for a
\* DID, the Network Fetcher for http(s)) and makes no cache call; what it
\* returns is what its own backend invocation returned, and after k
\* finished calls with one reference the backend has been invoked exactly
\* k times for it.
C9_CacheBypass ==
    ~cache =>
        /\ \A c \in Calls :
             (Finished(c) /\ ~UnrecognizedRef(call[c].url)) =>
                /\ BackendCount(c) = 1
                /\ Count(c, "resolver.resolve") =
                      (IF StartsWith(call[c].url, "did:") THEN 1 ELSE 0)
                /\ Count(c, "cache.get") = 0
                /\ Count(c, "cache.set") = 0
                /\ \A i \in DOMAIN call[c].log :
                     /\ call[c].log[i].ret.kind = "return" =>
                          call[c].future =
                              [kind |-> "result", value |-> BackendDocument(c, i)]
                     /\ call[c].log[i].ret.kind = "raise" =>
                          call[c].future.kind = "exception"
        /\ \A u \in { call[c].url : c \in Calls } :
             ~UnrecognizedRef(u) =>
                LET done == { c \in Calls : Finished(c) /\ call[c].url = u }
                    invoked ==
                        UNION { { << c, i >> :
                                    i \in Invocations(c, "resolver.resolve")
                                          \cup Invocations(c, "requests_loader") } :
                                c \in done }
                IN  Cardinality(invoked) = Cardinality(done)

\* Without a cache, two successive calls with the same reference have each
\* invoked the backend once and returned different documents.
C9_Witness ==
    \E a, b \in Calls :
        /\ ~cache
        /\ Successive(a, b)
        /\ BackendCount(a) = 1
        /\ BackendCount(b) = 1
        /\ call[a].future.kind = "result"
        /\ call[b].future.kind = "result"
        /\ call[a].future # call[b].future

(* ---------------------------------------------------------------------- *)
(* Failure propagation                                                     *)
(* ---------------------------------------------------------------------- *)

\* C10: a failure raised inside the pipeline (unrecognized reference,
\* Identifier Resolver failure, Network Fetcher failure, and a cache
\* failure alike) is delivered to the caller of that same call, as the same
\* exception; it is never swallowed or turned into a return value, and a
\* caller that is handed a document is one whose own pipeline raised
\* nothing.
C10_FailurePropagation ==
    \A c \in Calls :
        call[c].pc = "returned" =>
            /\ \A i \in DOMAIN call[c].log :
                 call[c].log[i].ret.kind = "raise" =>
                     call[c].delivered =
                         [kind |-> "exception", exc |-> call[c].log[i].ret.exc]
            /\ (UnrecognizedRef(call[c].url) /\ LookupMissed(c)) =>
                 /\ call[c].delivered.kind = "exception"
                 /\ call[c].delivered.exc.category = "LinkedDataProofException"
            /\ call[c].delivered.kind = "result" =>
                 /\ ~UnrecognizedRef(call[c].url)
                 /\ \A i \in DOMAIN call[c].log :
                        call[c].log[i].ret.kind = "return"
            /\ call[c].delivered.kind = "exception" =>
                 \/ /\ UnrecognizedRef(call[c].url)
                    /\ call[c].delivered.exc.category = "LinkedDataProofException"
                 \/ \E i \in DOMAIN call[c].log :
                        /\ call[c].log[i].ret.kind = "raise"
                        /\ call[c].log[i].ret.exc = call[c].delivered.exc

\* Two calls that were in the executor together have failed differently,
\* one in the Identifier Resolver and one in the Network Fetcher, and each
\* caller has received the failure of its own pipeline.
C10_Witness ==
    \E a, b \in Calls :
        /\ a < b
        /\ ~call[b].after
        /\ call[a].pc = "returned"
        /\ call[b].pc = "returned"
        /\ call[a].delivered.kind = "exception"
        /\ call[b].delivered.kind = "exception"
        /\ { call[a].delivered.exc.category, call[b].delivered.exc.category }
              = { "ResolverError", "JsonLdError" }

(* ---------------------------------------------------------------------- *)
(* Concurrent calls                                                        *)
(* ---------------------------------------------------------------------- *)

\* Every collaborator invocation of call c was made for c's own request.
OwnLog(c) ==
    \A i \in DOMAIN call[c].log :
        LET e == call[c].log[i] IN
        CASE e.op = "cache.get" -> e.key = cache_key(call[c].url)
          [] e.op = "cache.set" -> e.key = cache_key(call[c].url)
          [] e.op = "resolver.resolve" -> e.did = PlainDid(call[c].url)
          [] e.op = "requests_loader" ->
                e.url = call[c].url /\ e.options = call[c].options

\* What call c received is what its own collaborator invocations gave: the
\* exception its last invocation raised (or the unrecognized-reference
\* error), the entry its lookup found, or the document its own backend
\* invocation produced.
OwnOutcome(c) ==
    LET log == call[c].log
        n == Len(log)
        got == call[c].delivered
    IN  IF got.kind = "exception"
        THEN \/ n > 0 /\ log[n].ret.kind = "raise" /\ got.exc = log[n].ret.exc
             \/ /\ UnrecognizedRef(call[c].url)
                /\ got.exc = UnrecognizedUrlFormat
                /\ \A i \in 1..n : log[i].ret.kind = "return"
        ELSE /\ n > 0
             /\ log[n].ret.kind = "return"
             /\ \/ log[n].op = "cache.get" /\ got.value = log[n].ret.value
                \/ /\ log[n].op = "cache.set"
                   /\ n > 1
                   /\ got.value = BackendDocument(c, n - 1)
                \/ /\ log[n].op \in { "resolver.resolve", "requests_loader" }
                   /\ got.value = BackendDocument(c, n)

\* Some backend call has not returned (it hangs, or it waits on a
\* load_document call of the same instance queued behind itself).
SomeCallStuck == \E d \in Calls : call[d].pc = "stuck"

\* C11: every submitted load_document call completes (returns or raises)
\* unless some collaborator call never terminates, however the calls are
\* interleaved; and what each completed call receives is the outcome of its
\* own request's collaborator invocations, never that of another call.
C11_AllComplete ==
    /\ \A c \in Calls :
         (call[c].pc # "new") ~> (call[c].pc = "returned" \/ SomeCallStuck)
    /\ [](\A c \in Calls :
            call[c].pc = "returned" => OwnLog(c) /\ OwnOutcome(c))

\* Two calls with different requests were queued together and both have
\* returned, each with a document.
C11_Witness ==
    /\ \A c \in Calls :
         /\ call[c].pc = "returned"
         /\ call[c].delivered.kind = "result"
    /\ ~call[NCalls].after
    /\ call[1].url # call[NCalls].url

(* ---------------------------------------------------------------------- *)
(* Cache hit                                                               *)
(* ---------------------------------------------------------------------- *)

\* The lookup of call c found value stored under the key of its reference.
LookupReturned(c, value) ==
    \E i \in Invocations(c, "cache.get") :
        /\ call[c].log[i].key = cache_key(call[c].url)
        /\ call[c].log[i].ret = [kind |-> "return", value |-> value]

\* C12, as claimed: whenever a cache is configured and the store holds a
\* value under the key of the requested reference, whatever the value (an
\* empty document too), the call invokes neither the Identifier Resolver nor
\* the Network Fetcher nor cache.set, and returns the stored value verbatim.
C12_AsClaimed ==
    cache =>
        \A c \in Calls :
            \A v \in StoredEntries(call[c].url) :
                LookupReturned(c, v) =>
                    /\ BackendCount(c) = 0
                    /\ Count(c, "cache.set") = 0
                    /\ call[c].pc # "resolve"
                    /\ Finished(c) =>
                          call[c].future = [kind |-> "result", value |-> v]

\* The same for a stored value that is not empty.
C12_NonEmptyHit ==
    cache =>
        \A c \in Calls :
            \A v \in StoredEntries(call[c].url) \ { EmptyDocument } :
                LookupReturned(c, v) =>
                    /\ BackendCount(c) = 0
                    /\ Count(c, "cache.set") = 0
                    /\ call[c].pc # "resolve"
                    /\ Finished(c) =>
                          call[c].future = [kind |-> "result", value |-> v]

(* ---------------------------------------------------------------------- *)
(* Cache fill                                                              *)
(* ---------------------------------------------------------------------- *)

\* A backend invocation of call c returned a document.
ResolutionSucceeded(c) ==
    \E i \in DOMAIN call[c].log :
        /\ call[c].log[i].op \in { "resolver.resolve", "requests_loader" }
        /\ call[c].log[i].ret.kind = "return"

\* C13: with a cache configured, a call whose lookup missed and whose
\* resolution succeeded has, by the time it ends, invoked cache.set exactly
\* once, as its last collaborator call, with the key
\* 'json_ld_document_resolver::' followed by the reference as given (not the
\* bare DID), with the document its backend produced, which is the very
\* document it returns, and with the TTL given at construction.
C13_CacheFill ==
    cache =>
        \A c \in Calls :
            (Finished(c) /\ LookupMissed(c) /\ ResolutionSucceeded(c)) =>
                LET log == call[c].log
                    n == Len(log)
                IN  /\ Count(c, "cache.set") = 1
                    /\ log[n].op = "cache.set"
                    /\ log[n].key = "json_ld_document_resolver::" \o call[c].url
                    /\ log[n].value = BackendDocument(c, n - 1)
                    /\ log[n].ttl = cache_ttl
                    /\ call[c].future.kind = "result" =>
                          call[c].future.value = log[n].value
                    /\ call[c].future.kind = "exception" =>
                          log[n].ret.kind = "raise"

\* A call with a DID URL that carries a path has returned the record it
\* stored under the key of the whole reference, with a TTL other than the
\* default.
C13_Witness ==
    /\ cache
    /\ cache_ttl # default_cache_ttl
    /\ \E c \in Calls :
         /\ call[c].pc = "returned"
         /\ call[c].url = "did:a:1/p"
         /\ call[c].delivered.kind = "result"
         /\ store[cache_key("did:a:1/p")] = call[c].delivered.value
         /\ store[cache_key("did:a:1")] = None

(* ---------------------------------------------------------------------- *)
(* Failed resolution                                                       *)
(* ---------------------------------------------------------------------- *)

\* The resolution of call c has failed: its backend invocation raised, or
\* its reference reached the dispatcher and is not recognized.
ResolutionFailed(c) ==
    \/ \E i \in DOMAIN call[c].log :
          /\ call[c].log[i].op \in { "resolver.resolve", "requests_loader" }
          /\ call[c].log[i].ret.kind = "raise"
    \/ /\ UnrecognizedRef(call[c].url)
       /\ Finished(c)
       /\ LookupMissed(c)

\* C14: a call whose resolution fails (unrecognized reference, resolver or
\* fetcher failure) raises without invoking cache.set, so nothing is stored
\* under its key: the next call with the same reference, when its lookup
\* answers, misses again and goes to resolution again (one backend
\* invocation for a recognized reference, the unrecognized-reference error
\* otherwise).
C14_FailureNotCached ==
    /\ \A c \in Calls :
         ResolutionFailed(c) =>
            /\ Count(c, "cache.set") = 0
            /\ call[c].pc \in { "done", "returned" }
            /\ call[c].future.kind = "exception"
    /\ cache =>
         \A a, b \in Calls :
            (Successive(a, b) /\ ResolutionFailed(a)) =>
                /\ store[cache_key(call[a].url)] = None
                       \/ \E d \in Calls : d > a /\ Count(d, "cache.set") > 0
                /\ \A i \in Invocations(b, "cache.get") :
                      call[b].log[i].ret.kind = "return" =>
                         /\ call[b].log[i].ret.value = None
                         /\ IF UnrecognizedRef(call[b].url)
                            THEN call[b].future =
                                    [kind |-> "exception", exc |-> UnrecognizedUrlFormat]
                            ELSE BackendCount(b) = 1

\* With a cache configured, a call's backend raised; the next call with the
\* same reference missed, resolved and returned a document.
C14_Witness ==
    /\ cache
    /\ \E a, b \in Calls :
         /\ Successive(a, b)
         /\ BackendCount(a) = 1
         /\ ResolutionFailed(a)
         /\ LookupMissed(b)
         /\ call[b].pc = "returned"
         /\ call[b].delivered.kind = "result"

(* ---------------------------------------------------------------------- *)
(* Cache key and options                                                   *)
(* ---------------------------------------------------------------------- *)

\* Call c has stored a document: its cache.set returned.
FilledCache(c) ==
    \E i \in Invocations(c, "cache.set") : call[c].log[i].ret.kind = "return"

\* The document call c gave to cache.set.
StoredBy(c) ==
    LET i == CHOOSE i \in Invocations(c, "cache.set") : TRUE
    IN  call[c].log[i].value

\* C15: the cache key depends on the reference only. With a cache
\* configured, when a call load_document(r, o1) has filled the cache and no
\* entry under r's key has expired, the next call load_document(r, o2) with
\* other options o2 invokes no backend resolver (so o2 reaches none), and
\* when its lookup answers it returns the document cached for o1.
C15_KeyIgnoresOptions ==
    cache =>
        \A a, b \in Calls :
            ( /\ b = a + 1
              /\ call[b].url = call[a].url
              /\ call[b].options # call[a].options
              /\ FilledCache(a)
              /\ cache_key(call[a].url) \notin expired ) =>
                /\ BackendCount(b) = 0
                /\ \A i \in DOMAIN call[b].log :
                      call[b].log[i].op # "requests_loader"
                /\ \A i \in Invocations(b, "cache.get") :
                      call[b].log[i].ret.kind = "return" =>
                         /\ call[b].log[i].ret.value = StoredBy(a)
                         /\ Finished(b)
                         /\ call[b].future =
                               [kind |-> "result", value |-> StoredBy(a)]

\* A call with reference 'http://h' and one options mapping filled the
\* cache; the next call, with the same reference and other options, has
\* returned that document without a backend call.
C15_Witness ==
    /\ cache
    /\ \E a, b \in Calls :
         /\ b = a + 1
         /\ call[a].url = "http://h"
         /\ call[b].url = "http://h"
         /\ call[b].options # call[a].options
         /\ FilledCache(a)
         /\ call[b].pc = "returned"
         /\ call[b].delivered = [kind |-> "result", value |-> StoredBy(a)]
         /\ BackendCount(b) = 0

(* ---------------------------------------------------------------------- *)
(* Cache failures                                                          *)
(* ---------------------------------------------------------------------- *)

\* Invocation i of call c raised.
RaisedAt(c, i) == call[c].log[i].ret.kind = "raise"

\* C16: a failure of the cache is fatal to the call and never bypassed. When
\* cache.get raises, the call ends with that exception and has invoked no
\* backend resolver and no cache.set; when cache.set raises after a
\* successful resolution, the call ends with that exception and the resolved
\* document is not returned.
C16_CacheFailureFatal ==
    \A c \in Calls :
        /\ \A i \in Invocations(c, "cache.get") :
              RaisedAt(c, i) =>
                 /\ Finished(c)
                 /\ call[c].future =
                       [kind |-> "exception", exc |-> call[c].log[i].ret.exc]
                 /\ BackendCount(c) = 0
                 /\ Count(c, "cache.set") = 0
        /\ \A i \in Invocations(c, "cache.set") :
              RaisedAt(c, i) =>
                 /\ ResolutionSucceeded(c)
                 /\ Finished(c)
                 /\ call[c].future =
                       [kind |-> "exception", exc |-> call[c].log[i].ret.exc]
        /\ call[c].pc = "returned" => call[c].delivered = call[c].future

\* One call has raised the failure of its cache.get, another the failure of
\* its cache.set after its backend had returned a document.
C16_Witness ==
    \E a, b \in Calls :
        /\ call[a].pc = "returned"
        /\ call[b].pc = "returned"
        /\ \E i \in Invocations(a, "cache.get") : RaisedAt(a, i)
        /\ \E i \in Invocations(b, "cache.set") : RaisedAt(b, i)
        /\ call[a].delivered = [kind |-> "exception", exc |-> CacheError]
        /\ call[b].delivered = [kind |-> "exception", exc |-> CacheError]

(* ---------------------------------------------------------------------- *)
(* A backend call that never returns                                       *)
(* ---------------------------------------------------------------------- *)

\* The backend call of call c has not returned and will not.
IsStuck(c) == call[c].pc = "stuck"

\* C17: when a Network Fetcher or Identifier Resolver call of one pipeline
\* run never returns, that load_document call never completes (it stays in
\* the backend call, its future is never set and nothing is delivered), and
\* no call submitted after it starts its pipeline or completes: nothing
\* releases the worker.
C17_StuckBlocksWorker ==
    /\ [](\A c \in Calls :
            IsStuck(c) =>
               /\ call[c].future = None
               /\ call[c].delivered = None
               /\ InFlight = { c }
               /\ \A d \in Calls :
                     d > c => /\ call[d].pc \in { "new", "queued" }
                              /\ call[d].log = << >>)
    /\ [][\A c \in Calls : IsStuck(c) => IsStuck(c)']_vars

\* The first call is stuck in its backend call and the second call, queued
\* behind it, has not started.
C17_Witness ==
    /\ IsStuck(1)
    /\ BackendCount(1) = 1
    /\ call[NCalls].pc = "queued"
    /\ queue # << >>

(* ---------------------------------------------------------------------- *)
(* Event loops                                                             *)
(* ---------------------------------------------------------------------- *)

\* C18: every pipeline run is driven by an event loop created for that
\* invocation on a worker thread: the loop of a started call is one created
\* after construction, it is not the loop of the calling thread, no two
\* calls share a loop, and collaborator calls are made only by a run that a
\* worker has started.
C18_FreshEventLoop ==
    \A c \in Calls :
        /\ Started(c) =>
              /\ call[c].loop # MainLoop
              /\ call[c].loop \in (MainLoop + 1)..loops
              /\ call[c].worker \in 1..max_workers
        /\ call[c].log # << >> => Started(c)
        /\ \A d \in Calls :
              (d # c /\ Started(c) /\ Started(d)) => call[c].loop # call[d].loop

\* Two calls have run to their end, each on a loop of its own.
C18_Witness ==
    /\ call[1].pc = "returned"
    /\ call[NCalls].pc = "returned"
    /\ call[1].log # << >>
    /\ call[NCalls].log # << >>
    /\ call[1].loop # call[NCalls].loop
    /\ loops = MainLoop + NCalls

(* ---------------------------------------------------------------------- *)
(* The worker after a failure                                              *)
(* ---------------------------------------------------------------------- *)

\* Call c has raised.
HasRaised(c) ==
    /\ Finished(c)
    /\ call[c].future.kind = "exception"

\* C19: a call that raised (unrecognized reference, resolver, fetcher or
\* cache failure) leaves the worker usable: once it has raised, the worker
\* takes the next queued work item as soon as nothing is in flight, and a
\* later call, started after the failure, makes its own collaborator calls
\* and returns or raises what those give, not the earlier failure.
C19_WorkerSurvivesFailure ==
    \A c \in Calls :
        HasRaised(c) =>
            /\ c \notin InFlight
            /\ (InFlight = { } /\ queue # << >>) =>
                  ENABLED (\E w \in 1..max_workers : WorkerStart(w))
            /\ \A d \in Calls :
                  (d > c /\ Finished(d)) =>
                      /\ OwnLog(d)
                      /\ call[d].future.kind = "exception" =>
                            \/ /\ call[d].log # << >>
                               /\ RaisedAt(d, Len(call[d].log))
                               /\ call[d].future.exc =
                                     call[d].log[Len(call[d].log)].ret.exc
                            \/ /\ UnrecognizedRef(call[d].url)
                               /\ call[d].future.exc = UnrecognizedUrlFormat
                      /\ call[d].future.kind = "result" =>
                            /\ call[d].log # << >>
                            /\ ~RaisedAt(d, Len(call[d].log))
                            /\ call[d].future.value \in
                                  { BackendDocument(d, i) :
                                      i \in DOMAIN call[d].log \ Invocations(d, "cache.set") }

\* After a call raised, the next call, submitted once the failure had been
\* delivered, ran its pipeline and returned a document.
C19_Witness ==
    \E c, d \in Calls :
        /\ d = c + 1
        /\ call[d].after
        /\ HasRaised(c)
        /\ call[c].pc = "returned"
        /\ call[d].pc = "returned"
        /\ BackendCount(d) = 1
        /\ call[d].delivered.kind = "result"

(* ---------------------------------------------------------------------- *)
(* Concurrent calls with one reference                                     *)
(* ---------------------------------------------------------------------- *)

\* Every backend invocation made so far, by any call.
BackendInvocations ==
    UNION { { << c, i >> : i \in Invocations(c, "resolver.resolve")
                                 \cup Invocations(c, "requests_loader") } :
            c \in Calls }

\* Every call has been made with one recognized reference and has ended, on
\* a configured cache no entry of which has expired, and every backend
\* invocation returned a document.
SameReferenceRun ==
    /\ cache
    /\ expired = { }
    /\ \A c \in Calls :
         /\ Finished(c)
         /\ call[c].url = call[1].url
         /\ ~UnrecognizedRef(call[c].url)
    /\ \A p \in BackendInvocations : call[p[1]].log[p[2]].ret.kind = "return"

\* No cache.get and no cache.set of any call has raised.
NoCacheFailure ==
    \A c \in Calls :
        \A i \in Invocations(c, "cache.get") \cup Invocations(c, "cache.set") :
            ~RaisedAt(c, i)

\* C20, as claimed: when all calls are made with the same recognized
\* reference on a configured, initially empty cache whose entries do not
\* expire, and resolution succeeds, the backend resolver has been invoked
\* exactly once in total when they have all ended.
C20_AsClaimed == SameReferenceRun => Cardinality(BackendInvocations) = 1

\* C20, amended: the same provided no cache.get and no cache.set fails; the
\* one backend invocation is then made by the first call in submission order
\* and every call returns the document it produced.
C20_SingleResolution ==
    (SameReferenceRun /\ NoCacheFailure) =>
        /\ Cardinality(BackendInvocations) = 1
        /\ BackendCount(1) = 1
        /\ \A c \in Calls :
              call[c].future = [kind |-> "result", value |-> StoredBy(1)]

\* Two calls with one reference were queued together, both have returned
\* the same document and the backend was invoked once.
C20_Witness ==
    /\ SameReferenceRun
    /\ NoCacheFailure
    /\ ~call[NCalls].after
    /\ \A c \in Calls : call[c].pc = "returned"
    /\ call[NCalls].delivered = call[1].delivered
    /\ Cardinality(BackendInvocations) = 1

====
